---------------------------- MODULE Spec2Model ----------------------------
(***************************************************************************)
(* Housing-market analysis pipeline (src/main.py):                         *)
(*   load_dataset -> clean_dataset -> avg_price_by_year_built -> to_csv    *)
(*   -> avg_price_by_sale_year -> to_csv -> plot_price_trend               *)
(*   -> plot_price_vs_sqft.                                                *)
(*                                                                         *)
(* A cell of a table is a record [kind, v]:                                *)
(*   "int"   the whole number v                                            *)
(*   "frac"  the number v + 0.5 (a non-integral float)                     *)
(*   "text"  a string that is neither a number nor a date                  *)
(*   "blank" an empty CSV field                                            *)
(*   "date"  a date string, v = year * 100 + month                         *)
(*   "nan"   the missing-value marker NaN                                  *)
(*   "ts"    a parsed Timestamp, v = year * 100 + month                    *)
(*   "nat"   the missing-date marker NaT                                   *)
(* A table is a sequence of rows; a row is a record of cells plus the      *)
(* pandas index label idx and one pass-through column, city.               *)
(***************************************************************************)
EXTENDS Integers, Sequences, FiniteSets, TLC

VARIABLES pc, csv, outdir, df, avg_by_year_built, avg_by_sale_year,
          written, contents, exc

vars == <<pc, csv, outdir, df, avg_by_year_built, avg_by_sale_year,
          written, contents, exc>>

---------------------------------------------------------------------------
(* Bounds and program constants *)

MaxRows == 3

BuiltLo == 2014
BuiltHi == 2024
SaleLo == 2014
SaleHi == 2024

---------------------------------------------------------------------------
(* Cells *)

Whole(n) == [kind |-> "int", v |-> n]
Half(n) == [kind |-> "frac", v |-> n]
Text == [kind |-> "text", v |-> 0]
Blank == [kind |-> "blank", v |-> 0]
DateStr(y, m) == [kind |-> "date", v |-> y * 100 + m]
NaN == [kind |-> "nan", v |-> 0]
NaT == [kind |-> "nat", v |-> 0]
Timestamp(n) == [kind |-> "ts", v |-> n]

isna(c) == c.kind \in {"nan", "nat"}

\* A float in half units, so that v + 0.5 is a whole number of halves.
Twice(c) == 2 * c.v + (IF c.kind = "frac" THEN 1 ELSE 0)

Targets == {"listPrice", "sqft", "year_built", "lastSoldOn"}

---------------------------------------------------------------------------
(* The input file *)

Prices == {100000, 200000, 300000}
Area == Whole(1500)

RawRow(p, s, y, d, c) ==
    [listPrice |-> p, sqft |-> s, year_built |-> y, lastSoldOn |-> d, city |-> c]

\* Listings inside the window: built in the first year and sold in the last
\* month of the window, or built in the last year and sold in its first month.
InWindowRows ==
    { RawRow(Whole(p), Area, Whole(BuiltLo), DateStr(SaleHi, 12), "SLC") : p \in Prices }
    \cup
    { RawRow(Whole(p), Area, Whole(BuiltHi), DateStr(SaleLo, 1), "Provo") : p \in Prices }

\* Listings one year (one month) outside the window on either side.
OutOfWindowRows ==
    { RawRow(Whole(200000), Area, Whole(BuiltLo - 1), DateStr(SaleHi + 1, 1), "SLC"),
      RawRow(Whole(300000), Area, Whole(BuiltHi + 1), DateStr(SaleLo - 1, 12), "Provo") }

\* Listings with one defective target field each.
DefectRows ==
    { RawRow(Text, Area, Whole(BuiltLo), DateStr(SaleHi, 12), "SLC"),
      RawRow(Whole(300000), Blank, Whole(BuiltLo), DateStr(SaleHi, 12), "Provo"),
      RawRow(Whole(300000), Area, Whole(BuiltHi), Text, "SLC"),
      RawRow(Whole(100000), Area, Blank, DateStr(SaleLo, 1), "Ogden"),
      RawRow(Whole(200000), Area, Half(BuiltLo), DateStr(SaleHi, 12), "Ogden") }

RawRows == InWindowRows \cup OutOfWindowRows \cup DefectRows

SeqsUpTo(S, n) == UNION { [1..k -> S] : k \in 0..n }

CsvFiles ==
    { [status |-> "ok", rows |-> r] : r \in SeqsUpTo(RawRows, MaxRows) }
    \cup
    { [status |-> s, rows |-> <<>>] : s \in {"missing", "malformed"} }

---------------------------------------------------------------------------
(* load_dataset *)

\* pd.read_csv: rows get the labels 0, 1, 2, ... of a RangeIndex; an empty
\* field is read as NaN, every other field keeps what the file holds.
read_field(c) == IF c.kind = "blank" THEN NaN ELSE c

read_csv(rows) ==
    [ i \in 1..Len(rows) |->
        [ idx        |-> i - 1,
          listPrice  |-> read_field(rows[i].listPrice),
          sqft       |-> read_field(rows[i].sqft),
          year_built |-> read_field(rows[i].year_built),
          lastSoldOn |-> read_field(rows[i].lastSoldOn),
          city       |-> rows[i].city ] ]

\* pd.DataFrame(): no rows (and no columns).
EmptyFrame == <<>>

\* A variant whose except clause lets a parse error through.
load_dataset_reraise(f) ==
    IF f.status = "ok"
    THEN [raised |-> FALSE, df |-> read_csv(f.rows)]
    ELSE [raised |-> f.status = "malformed", df |-> EmptyFrame]

\* try: read_csv; except Exception: return pd.DataFrame()
load_dataset(f) ==
    IF f.status = "ok"
    THEN [raised |-> FALSE, df |-> read_csv(f.rows)]
    ELSE [raised |-> FALSE, df |-> EmptyFrame]

---------------------------------------------------------------------------
(* clean_dataset *)

\* pd.to_numeric(errors="coerce"): numbers stay, everything else becomes NaN.
to_numeric(c) == IF c.kind \in {"int", "frac"} THEN c ELSE NaN

\* pd.to_datetime(errors="coerce"): a date string becomes a Timestamp,
\* everything else becomes NaT.
to_datetime(c) ==
    IF c.kind = "date" THEN Timestamp(c.v)
    ELSE IF c.kind = "ts" THEN c
    ELSE NaT

coerce(r) ==
    [ r EXCEPT !.listPrice  = to_numeric(@),
               !.sqft       = to_numeric(@),
               !.year_built = to_numeric(@),
               !.lastSoldOn = to_datetime(@) ]

\* A subset that forgets sqft.
DropSubsetNoSqft == {"listPrice", "lastSoldOn"}

\* The subset= argument of dropna.
DropSubset == {"listPrice", "sqft", "lastSoldOn"}

Reverse(s) == [ i \in 1..Len(s) |-> s[Len(s) + 1 - i] ]

\* A variant that hands the kept rows back in reverse order.
dropna_reversed(d, subset) ==
    Reverse(SelectSeq(d, LAMBDA r : \A c \in subset : ~isna(r[c])))

\* df.dropna(subset=...): keeps, in order and with their labels, the rows
\* with no missing value in the subset's columns.
dropna(d, subset) ==
    SelectSeq(d, LAMBDA r : \A c \in subset : ~isna(r[c]))

clean_dataset(d) ==
    dropna([ i \in 1..Len(d) |-> coerce(d[i]) ], DropSubset)

---------------------------------------------------------------------------
(* Grouped means *)

RECURSIVE GCD(_, _)
GCD(a, b) == IF b = 0 THEN a ELSE GCD(b, a % b)

RECURSIVE SumTwice(_)
SumTwice(cells) ==
    IF cells = <<>> THEN 0 ELSE Twice(Head(cells)) + SumTwice(Tail(cells))

\* The exact quotient num / den in lowest terms; den = 0 stands for NaN.
Ratio(n, d) ==
    IF d = 0 THEN [num |-> 0, den |-> 0]
    ELSE LET g == GCD(n, d) IN [num |-> n \div g, den |-> d \div g]

\* A variant that totals the group instead of averaging it.
mean_as_sum(cells) ==
    LET present == SelectSeq(cells, LAMBDA c : ~isna(c))
    IN  Ratio(SumTwice(present), IF present = <<>> THEN 0 ELSE 2)

\* Series.mean(): the sum of the present values over their count.
mean(cells) ==
    LET present == SelectSeq(cells, LAMBDA c : ~isna(c))
    IN  Ratio(SumTwice(present), 2 * Len(present))

Column(d, col) == [ i \in 1..Len(d) |-> d[i][col] ]

\* The keys of a groupby: the distinct present values of the column.
GroupKeys(d, col) == { d[i][col] : i \in { j \in 1..Len(d) : ~isna(d[j][col]) } }

RECURSIVE Ascending(_)
Ascending(S) ==
    IF S = {} THEN <<>>
    ELSE LET m == CHOOSE x \in S : \A y \in S : Twice(x) <= Twice(y)
         IN  <<m>> \o Ascending(S \ {m})

\* The keys in order of first appearance, as groupby(sort=False) gives them.
RECURSIVE FirstSeen(_, _)
FirstSeen(cells, seen) ==
    IF cells = <<>> THEN <<>>
    ELSE IF isna(Head(cells)) \/ Head(cells) \in seen
         THEN FirstSeen(Tail(cells), seen)
         ELSE <<Head(cells)>> \o FirstSeen(Tail(cells), seen \cup {Head(cells)})

GroupRow(d, col, k) ==
    [ key |-> k,
      AveragePrice |->
          mean(Column(SelectSeq(d, LAMBDA r : r[col] = k), "listPrice")) ]

\* sort_values(col): a stable insertion sort on the key.
RECURSIVE sort_values(_)
Insert(r, s) ==
    LET n == Cardinality({ i \in 1..Len(s) : Twice(s[i].key) <= Twice(r.key) })
    IN  SubSeq(s, 1, n) \o <<r>> \o SubSeq(s, n + 1, Len(s))
sort_values(s) ==
    IF s = <<>> THEN <<>>
    ELSE Insert(s[Len(s)], sort_values(SubSeq(s, 1, Len(s) - 1)))

\* A variant with groupby(sort=False) and no sort_values.
grouped_mean_unsorted(d, col) ==
    LET ks == FirstSeen(Column(d, col), {})
    IN  [ i \in 1..Len(ks) |-> GroupRow(d, col, ks[i]) ]

\* df.groupby(col)["listPrice"].mean().reset_index(name="AveragePrice")
\*   .sort_values(col)
grouped_mean(d, col) ==
    LET ks == Ascending(GroupKeys(d, col))
    IN  sort_values([ i \in 1..Len(ks) |-> GroupRow(d, col, ks[i]) ])

\* astype("Int64") raises on a float that is not a whole number.
CanCastInt64(res) == \A i \in 1..Len(res) : res[i].key.kind = "int"

astype_Int64(res) == [ i \in 1..Len(res) |-> [ res[i] EXCEPT !.key = @.v ] ]

\* A variant whose window is open at both ends.
between_exclusive(x, lo, hi) == lo < x /\ x < hi

\* Series.between(lo, hi): inclusive at both ends.
between(x, lo, hi) == lo <= x /\ x <= hi

avg_price_by_year_built(d) ==
    LET result == grouped_mean(d, "year_built")
    IN  IF ~CanCastInt64(result)
        THEN [raised |-> TRUE, result |-> <<>>]
        ELSE [raised |-> FALSE,
              result |-> SelectSeq(astype_Int64(result),
                                   LAMBDA r : between(r.key, BuiltLo, BuiltHi))]

\* Series.dt.year
dt_year(c) == IF c.kind = "ts" THEN Whole(c.v \div 100) ELSE NaN

\* df["SaleYear"] = df["lastSoldOn"].dt.year
with_SaleYear(d) ==
    [ i \in 1..Len(d) |-> ("SaleYear" :> dt_year(d[i].lastSoldOn)) @@ d[i] ]

avg_price_by_sale_year(d) ==
    LET d2     == with_SaleYear(d)
        result == grouped_mean(d2, "SaleYear")
    IN  IF ~CanCastInt64(result)
        THEN [raised |-> TRUE, result |-> <<>>, df |-> d2]
        ELSE [raised |-> FALSE,
              result |-> SelectSeq(astype_Int64(result),
                                   LAMBDA r : between(r.key, SaleLo, SaleHi)),
              df |-> d2]

---------------------------------------------------------------------------
(* main *)

BuiltCsv == "avg_price_by_year_built.csv"
SaleCsv == "avg_price_by_sale_year.csv"
TrendPng == "price_trend.png"
ScatterPng == "price_vs_sqft.png"

OutputFiles == {BuiltCsv, SaleCsv, TrendPng, ScatterPng}

\* What a figure draws: the trend line's (x, y) pairs, the scatter's points.
TrendPoints(trends) ==
    [ i \in 1..Len(trends) |-> [x |-> trends[i].key, y |-> trends[i].AveragePrice] ]

ScatterPoints(d) ==
    [ i \in 1..Len(d) |-> [idx |-> d[i].idx, x |-> d[i].sqft, y |-> d[i].listPrice] ]

\* A variant that tests for emptiness only after cleaning.
empty_after_clean(d) == Len(clean_dataset(d)) = 0

\* DataFrame.empty
empty(d) == Len(d) = 0

\* How a plotting call can end: it returns, it raises before savefig has
\* created the file, or it raises after savefig has created it.
PlotOutcomes == {"ok", "raised", "raised_after_save"}

Init ==
    /\ pc = "makedirs"
    /\ csv \in CsvFiles
    /\ outdir = FALSE
    /\ df = EmptyFrame
    /\ avg_by_year_built = <<>>
    /\ avg_by_sale_year = <<>>
    /\ written = <<>>
    /\ contents = [ f \in OutputFiles |-> <<>> ]
    /\ exc = "none"

MakeDirs ==
    /\ pc = "makedirs"
    /\ outdir' = TRUE
    /\ pc' = "load"
    /\ UNCHANGED <<csv, df, avg_by_year_built, avg_by_sale_year, written, contents, exc>>

LoadDataset ==
    /\ pc = "load"
    /\ LET r == load_dataset(csv)
       IN  IF r.raised
           THEN /\ pc' = "raised"
                /\ exc' = "load_dataset"
                /\ df' = df
           ELSE /\ pc' = "check"
                /\ exc' = exc
                /\ df' = r.df
    /\ UNCHANGED <<csv, outdir, avg_by_year_built, avg_by_sale_year, written, contents>>

EarlyReturn ==
    /\ pc = "check"
    /\ empty(df)
    /\ pc' = "returned"
    /\ UNCHANGED <<csv, outdir, df, avg_by_year_built, avg_by_sale_year, written, contents, exc>>

CleanDataset ==
    /\ pc = "check"
    /\ ~empty(df)
    /\ df' = clean_dataset(df)
    /\ pc' = "q1"
    /\ UNCHANGED <<csv, outdir, avg_by_year_built, avg_by_sale_year, written, contents, exc>>

AvgPriceByYearBuilt ==
    /\ pc = "q1"
    /\ LET r == avg_price_by_year_built(df)
       IN  IF r.raised
           THEN /\ pc' = "raised"
                /\ exc' = "avg_price_by_year_built"
                /\ avg_by_year_built' = avg_by_year_built
           ELSE /\ pc' = "csv1"
                /\ exc' = exc
                /\ avg_by_year_built' = r.result
    /\ UNCHANGED <<csv, outdir, df, avg_by_sale_year, written, contents>>

WriteBuiltCsv ==
    /\ pc = "csv1"
    /\ written' = Append(written, BuiltCsv)
    /\ contents' = [contents EXCEPT ![BuiltCsv] = avg_by_year_built]
    /\ pc' = "q2"
    /\ UNCHANGED <<csv, outdir, df, avg_by_year_built, avg_by_sale_year, exc>>

AvgPriceBySaleYear ==
    /\ pc = "q2"
    /\ LET r == avg_price_by_sale_year(df)
       IN  /\ df' = r.df
           /\ IF r.raised
              THEN /\ pc' = "raised"
                   /\ exc' = "avg_price_by_sale_year"
                   /\ avg_by_sale_year' = avg_by_sale_year
              ELSE /\ pc' = "csv2"
                   /\ exc' = exc
                   /\ avg_by_sale_year' = r.result
    /\ UNCHANGED <<csv, outdir, avg_by_year_built, written, contents>>

\* A variant of main that never calls to_csv on the sale-year aggregate.
WriteSaleCsv_omitted ==
    /\ pc = "csv2"
    /\ pc' = "plot1"
    /\ UNCHANGED <<csv, outdir, df, avg_by_year_built, avg_by_sale_year, written, contents, exc>>

WriteSaleCsv ==
    /\ pc = "csv2"
    /\ written' = Append(written, SaleCsv)
    /\ contents' = [contents EXCEPT ![SaleCsv] = avg_by_sale_year]
    /\ pc' = "plot1"
    /\ UNCHANGED <<csv, outdir, df, avg_by_year_built, avg_by_sale_year, exc>>

PlotPriceTrend ==
    /\ pc = "plot1"
    /\ \E outcome \in PlotOutcomes :
        /\ IF outcome = "raised"
           THEN UNCHANGED <<written, contents>>
           ELSE /\ written' = Append(written, TrendPng)
                /\ contents' = [contents EXCEPT ![TrendPng] = TrendPoints(avg_by_sale_year)]
        /\ IF outcome = "ok"
           THEN pc' = "plot2" /\ exc' = exc
           ELSE pc' = "raised" /\ exc' = "plot_price_trend"
    /\ UNCHANGED <<csv, outdir, df, avg_by_year_built, avg_by_sale_year>>

PlotPriceVsSqft ==
    /\ pc = "plot2"
    /\ \E outcome \in PlotOutcomes :
        /\ IF outcome = "raised"
           THEN UNCHANGED <<written, contents>>
           ELSE /\ written' = Append(written, ScatterPng)
                /\ contents' = [contents EXCEPT ![ScatterPng] = ScatterPoints(df)]
        /\ IF outcome = "ok"
           THEN pc' = "done" /\ exc' = exc
           ELSE pc' = "raised" /\ exc' = "plot_price_vs_sqft"
    /\ UNCHANGED <<csv, outdir, df, avg_by_year_built, avg_by_sale_year>>

Next ==
    \/ MakeDirs
    \/ LoadDataset
    \/ EarlyReturn
    \/ CleanDataset
    \/ AvgPriceByYearBuilt
    \/ WriteBuiltCsv
    \/ AvgPriceBySaleYear
    \/ WriteSaleCsv
    \/ PlotPriceTrend
    \/ PlotPriceVsSqft

Spec == Init /\ [][Next]_vars

---------------------------------------------------------------------------
(* Properties *)

\* The table as load_dataset hands it to main.
Loaded == load_dataset(csv).df

Terminated == pc \in {"returned", "done", "raised"}

\* clean_dataset has returned.
Cleaned ==
    \/ pc \in {"q1", "csv1", "q2", "csv2", "plot1", "plot2", "done"}
    \/ pc = "raised" /\ exc # "load_dataset"

\* avg_price_by_year_built has returned a result.
BuiltDone ==
    \/ pc \in {"csv1", "q2", "csv2", "plot1", "plot2", "done"}
    \/ pc = "raised" /\ exc \notin {"load_dataset", "avg_price_by_year_built"}

\* avg_price_by_sale_year has returned a result.
SaleDone ==
    \/ pc \in {"csv2", "plot1", "plot2", "done"}
    \/ pc = "raised" /\ exc \in {"plot_price_trend", "plot_price_vs_sqft"}

Range(s) == { s[i] : i \in 1..Len(s) }

\* A field of the file that is null or does not parse as its column's type.
Invalid(r, col) ==
    IF col = "lastSoldOn" THEN r[col].kind # "date"
    ELSE r[col].kind \notin {"int", "frac"}

\* C1: after clean_dataset every row of the table has a present value in each
\* of listPrice, sqft, year_built and lastSoldOn, and no row of the file with a
\* missing or unparseable value in one of the four is kept.
C1_AllFourPresent ==
    Cleaned =>
        /\ \A i \in 1..Len(df) : \A c \in Targets : ~isna(df[i][c])
        /\ \A i \in 1..Len(df) : \A c \in Targets : ~Invalid(csv.rows[df[i].idx + 1], c)

\* C2: the number of rows clean_dataset returns is the number of input rows
\* minus the number of input rows with a null or unparseable value in at
\* least one of the four target fields.
C2_RowCount ==
    pc = "q1" =>
        Len(df) = Len(Loaded)
                  - Cardinality({ i \in 1..Len(csv.rows) :
                                    \E c \in Targets : Invalid(csv.rows[i], c) })

Keys(res) == { res[i].key : i \in 1..Len(res) }

\* The year of a parsed sale date, read off the table's lastSoldOn column.
SoldIn(r) == r.lastSoldOn.v \div 100

\* C3: every row of either aggregate, and of either CSV, has a key in
\* 2014..2024, and a key of exactly 2014 or exactly 2024 (indeed any key of the
\* window) with at least one row in the cleaned table does appear.
C3_KeysInWindow ==
    /\ BuiltDone =>
        /\ Keys(avg_by_year_built) \subseteq 2014..2024
        /\ \A k \in 2014..2024 :
              (\E i \in 1..Len(df) : df[i].year_built = Whole(k))
                  => k \in Keys(avg_by_year_built)
    /\ SaleDone =>
        /\ Keys(avg_by_sale_year) \subseteq 2014..2024
        /\ \A k \in 2014..2024 :
              (\E i \in 1..Len(df) : SoldIn(df[i]) = k)
                  => k \in Keys(avg_by_sale_year)
    /\ Keys(contents[BuiltCsv]) \subseteq 2014..2024
    /\ Keys(contents[SaleCsv]) \subseteq 2014..2024
    /\ BuiltCsv \in Range(written) => contents[BuiltCsv] = avg_by_year_built
    /\ SaleCsv \in Range(written) => contents[SaleCsv] = avg_by_sale_year

\* Both edge years appear as year-built groups while a listing built the year
\* before the window is in the cleaned table; likewise for the sale years.
C3_Witness ==
    /\ pc = "done"
    /\ Keys(avg_by_year_built) = {2014, 2024}
    /\ Keys(avg_by_sale_year) = {2014, 2024}
    /\ \E i \in 1..Len(df) : df[i].year_built = Whole(2013) /\ SoldIn(df[i]) = 2025

RECURSIVE PriceTotal(_, _)
PriceTotal(d, S) ==
    IF S = {} THEN 0
    ELSE LET i == CHOOSE j \in S : TRUE
         IN  d[i].listPrice.v + PriceTotal(d, S \ {i})

\* q = total / n, with q an exact quotient in lowest terms.
IsQuotient(q, total, n) == n > 0 /\ q.den > 0 /\ q.num * n = total * q.den

\* C4: the AveragePrice of each group in either aggregate is the sum of
\* listPrice over all rows of the cleaned table with that key, divided by the
\* number of those rows.
C4_ArithmeticMean ==
    /\ BuiltDone =>
        \A g \in Range(avg_by_year_built) :
            LET S == { i \in 1..Len(df) : df[i].year_built = Whole(g.key) }
            IN  IsQuotient(g.AveragePrice, PriceTotal(df, S), Cardinality(S))
    /\ SaleDone =>
        \A g \in Range(avg_by_sale_year) :
            LET S == { i \in 1..Len(df) : SoldIn(df[i]) = g.key }
            IN  IsQuotient(g.AveragePrice, PriceTotal(df, S), Cardinality(S))

\* Three listings of one year priced 100000, 200000 and 300000 average 200000.
C4_Witness ==
    /\ pc = "done"
    /\ Len(df) = 3
    /\ { df[i].listPrice.v : i \in 1..3 } = {100000, 200000, 300000}
    /\ \E g \in Range(avg_by_year_built) :
          /\ \A i \in 1..3 : df[i].year_built = Whole(g.key)
          /\ g.AveragePrice = [num |-> 200000, den |-> 1]
    /\ \E g \in Range(avg_by_sale_year) :
          /\ \A i \in 1..3 : SoldIn(df[i]) = g.key
          /\ g.AveragePrice = [num |-> 200000, den |-> 1]

\* C5: when loading fails, load_dataset returns an empty table and main
\* returns without cleaning, aggregating, plotting or writing any output file.
C5_LoadFailure ==
    csv.status # "ok" =>
        /\ pc \in {"makedirs", "load", "check", "returned"}
        /\ pc \in {"check", "returned"} => df = EmptyFrame
        /\ pc = "check" => ENABLED EarlyReturn
        /\ exc = "none"
        /\ written = <<>>
        /\ \A f \in OutputFiles : contents[f] = <<>>
        /\ avg_by_year_built = <<>> /\ avg_by_sale_year = <<>>

C5_Witness ==
    /\ csv.status = "malformed"
    /\ pc = "returned"
    /\ written = <<>>

\* The labels of the loaded rows whose sqft is missing or whose lastSoldOn
\* does not parse as a date.
Excluded ==
    { Loaded[i].idx : i \in { j \in 1..Len(Loaded) :
          isna(Loaded[j].sqft) \/ Loaded[j].lastSoldOn.kind # "date" } }

\* The file without those rows.
WithoutExcluded ==
    SelectSeq(csv.rows, LAMBDA r : r.sqft.kind # "blank" /\ r.lastSoldOn.kind = "date")

\* C6: a row whose sqft is missing or whose lastSoldOn is unparseable is not
\* in the table the aggregates and the scatter plot are given, neither
\* aggregate changes when those rows are deleted from the file, and no
\* scatter point comes from such a row.
C6_ExcludedRows ==
    /\ Cleaned => \A i \in 1..Len(df) : df[i].idx \notin Excluded
    /\ BuiltDone =>
          avg_by_year_built =
              avg_price_by_year_built(clean_dataset(read_csv(WithoutExcluded))).result
    /\ SaleDone =>
          avg_by_sale_year =
              avg_price_by_sale_year(clean_dataset(read_csv(WithoutExcluded))).result
    /\ \A i \in 1..Len(contents[ScatterPng]) :
          contents[ScatterPng][i].idx \notin Excluded

C6_Witness ==
    /\ pc = "done"
    /\ \E i \in 1..Len(Loaded) : isna(Loaded[i].sqft)
    /\ \E i \in 1..Len(Loaded) : Loaded[i].lastSoldOn.kind # "date"
    /\ Len(contents[ScatterPng]) = 1
    /\ Len(avg_by_year_built) = 1 /\ Len(avg_by_sale_year) = 1

StrictlyAscending(res) ==
    \A i, j \in 1..Len(res) : i < j => res[i].key < res[j].key

\* The rows of the file rearranged by the permutation p of their positions.
Permuted(rows, p) == [ i \in 1..Len(rows) |-> rows[p[i]] ]

C8_PassThrough ==
    Cleaned =>
        /\ \A i \in 1..Len(df) :
              /\ df[i].idx + 1 \in 1..Len(Loaded)
              /\ df[i].city = Loaded[df[i].idx + 1].city
              /\ df[i].city = csv.rows[df[i].idx + 1].city
        /\ \A i, j \in 1..Len(df) : i < j => df[i].idx < df[j].idx

\* Two rows of different cities are kept and the row between them is dropped.
C8_Witness ==
    /\ pc = "q1"
    /\ Len(Loaded) = 3 /\ Len(df) = 2
    /\ df[1].idx = 0 /\ df[2].idx = 2
    /\ df[1].city # df[2].city

IsPrefix(s, t) == Len(s) <= Len(t) /\ \A i \in 1..Len(s) : s[i] = t[i]

OutputOrder == <<BuiltCsv, SaleCsv, TrendPng, ScatterPng>>

\* C9: the outputs are written in the order avg_price_by_year_built.csv,
\* avg_price_by_sale_year.csv, price_trend.png, price_vs_sqft.png, none
\* repeated or skipped; a PNG is written only after both CSVs; a failure in a
\* plotting step leaves both CSVs written and the later PNG unwritten; a run
\* that completes has written all four.
C9_OutputOrder ==
    /\ IsPrefix(written, OutputOrder)
    /\ (TrendPng \in Range(written) \/ ScatterPng \in Range(written))
          => {BuiltCsv, SaleCsv} \subseteq Range(written)
    /\ exc = "plot_price_trend"
          => /\ IsPrefix(<<BuiltCsv, SaleCsv>>, written)
             /\ ScatterPng \notin Range(written)
    /\ exc = "plot_price_vs_sqft"
          => IsPrefix(<<BuiltCsv, SaleCsv, TrendPng>>, written)
    /\ pc = "done" => written = OutputOrder
    /\ (pc = "done" \/ exc \in {"plot_price_trend", "plot_price_vs_sqft"})
          => Len(Loaded) > 0

C9_Witness ==
    /\ pc = "raised"
    /\ exc = "plot_price_trend"
    /\ written = <<BuiltCsv, SaleCsv>>
    /\ Len(contents[SaleCsv]) > 0

\* Every row of a non-empty loaded table is dropped by clean_dataset.
AllDropped == Len(Loaded) > 0 /\ Len(clean_dataset(Loaded)) = 0

\* C10: main returns early exactly when the loaded table has no rows (a load
\* failure or a file with no data rows), writing nothing; when a non-empty
\* table loses all its rows in clean_dataset, main does not return early: it
\* writes both aggregate CSVs with no data rows and calls plot_price_trend and
\* then plot_price_vs_sqft, stopping short only if a plotting call raises.
C10_EarlyExit ==
    /\ pc = "returned" => Len(Loaded) = 0 /\ written = <<>>
    /\ (Len(Loaded) = 0 /\ pc \notin {"makedirs", "load", "check"}) => pc = "returned"
    /\ Len(Loaded) > 0 => pc # "returned"
    /\ pc = "check" =>
          /\ ENABLED EarlyReturn <=> Len(Loaded) = 0
          /\ ENABLED CleanDataset <=> Len(Loaded) > 0
    /\ AllDropped =>
          /\ Terminated => pc = "done" \/ exc \in {"plot_price_trend", "plot_price_vs_sqft"}
          /\ Terminated =>
                /\ IsPrefix(<<BuiltCsv, SaleCsv>>, written)
                /\ contents[BuiltCsv] = <<>> /\ contents[SaleCsv] = <<>>
          /\ pc = "done" => written = OutputOrder

\* A table of three rows, all dropped, runs to the end with all four files.
C10_Witness ==
    /\ AllDropped
    /\ Len(Loaded) = 3
    /\ pc = "done"
    /\ Len(written) = 4
    /\ contents[BuiltCsv] = <<>> /\ contents[SaleCsv] = <<>>

=============================================================================
